---- MODULE Spec2Model ----
(***************************************************************************)
(* Model of src/app.py: the streaming conversation orchestrator            *)
(* (run_conversation), the search-and-extract pipeline (search_and_parse)  *)
(* and the stream bridge (generate_stream).                                *)
(*                                                                         *)
(* Texts are sequences of characters (small integers).  A formatted        *)
(* string (an f-string of the source) is a record: its kind names the      *)
(* template, the other fields are the interpolated values.                 *)
(***************************************************************************)
EXTENDS Integers, Sequences, FiniteSets, TLC

\* ------------------------------------------------------------- bounds
MaxChunks1 == 2
MaxChunks2 == 1
MaxUrls == 2

\* ------------------------------------------------- program constants
ContentLimit == 1000
PreviewLimit == 200
StatusOK == 200

\* Python's None, where the value is otherwise a string.
None == "None"

Min(a, b) == IF a <= b THEN a ELSE b

\* A text of n characters whose i-th character is (i + k) modulo 10.
TextFrom(k, n) == [i \in 1..n |-> (i + k) % 10]
Text(n) == TextFrom(0, n)

\* Python slice t[:n] on a text.
Slice(t, n) == SubSeq(t, 1, Min(Len(t), n))

\* dict.get(key, default) on a dict modelled as a function on its keys.
DictGet(d, k, default) == IF k \in DOMAIN d THEN d[k] ELSE default

\* ------------------------------------------------ the model's inputs
\* Text fragments a model stream can carry in delta.content.
StreamTexts == {<<>>, <<1, 2>>}

\* Argument payloads json.loads tells apart: a JSON object with the query, a
\* JSON object without it, and a string that is no JSON.
ArgsQuery == "{\"query\": \"paris\"}"
ArgsNoQuery == "{}"
ArgsMalformed == "{\"query\": "

\* json.loads giving an empty object for a string that is no JSON.
JsonLoads_Lenient(s) ==
    CASE s = ArgsQuery -> [ok |-> TRUE, val |-> [query |-> "paris"]]
      [] OTHER -> [ok |-> TRUE, val |-> [k \in {} |-> None]]

\* json.loads: ok is FALSE where it raises json.JSONDecodeError.
JsonLoads(s) ==
    CASE s = ArgsQuery -> [ok |-> TRUE, val |-> [query |-> "paris"]]
      [] s = ArgsNoQuery -> [ok |-> TRUE, val |-> [k \in {} |-> None]]
      [] OTHER -> [ok |-> FALSE, val |-> [k \in {} |-> None]]

\* json.dumps of the result list: the serialised form carries the list.
JsonDumps(v) == [json |-> v]

NoToolCalls == [isNone |-> TRUE]
ToolCall(name, arguments) == [isNone |-> FALSE, name |-> name, arguments |-> arguments]

ToolCalls ==
    { ToolCall("search_and_parse", ArgsQuery),
      ToolCall("search_and_parse", ArgsMalformed),
      ToolCall("other_tool", ArgsQuery) }

\* chunk.choices[0].delta of stream 1: content and tool_calls, each possibly None.
Chunks1 ==
    { [hasContent |-> FALSE, content |-> <<>>, tool_calls |-> NoToolCalls] }
    \cup { [hasContent |-> TRUE, content |-> t, tool_calls |-> NoToolCalls] : t \in StreamTexts }
    \cup { [hasContent |-> FALSE, content |-> <<>>, tool_calls |-> tc] : tc \in ToolCalls }
    \cup { [hasContent |-> TRUE, content |-> t, tool_calls |-> ToolCall("search_and_parse", ArgsQuery)] :
             t \in StreamTexts }

\* chunk.choices[0].delta of stream 2: a text, or no content; the delta without
\* content carries a tool call, which line 165 does not look at.
Chunks2 ==
    { [hasContent |-> FALSE, content |-> <<>>, tool_calls |-> ToolCall("search_and_parse", ArgsQuery)],
      [hasContent |-> TRUE, content |-> <<3>>, tool_calls |-> NoToolCalls] }

Urls == {"u1", "u2"}

\* What extract() returns for a fetched page: None, or a text.
NoExtract == [isNone |-> TRUE, text |-> <<>>]
Extracted(t) == [isNone |-> FALSE, text |-> t]

\* The extracted texts of the request and pipeline specifications: a short one
\* and one longer than the preview.
ShortText == Text(3)
LongText == Text(PreviewLimit + 1)
PageTexts == {ShortText, LongText}

\* The extracted texts of the truncation specification: lengths around 0, around
\* the preview limit and around the content limit, in two spellings.
TruncLengths ==
    (1..5) \cup ((PreviewLimit - 2)..(PreviewLimit + 2)) \cup ((ContentLimit - 2)..(ContentLimit + 3))
TruncTexts == { TextFrom(k, n) : k \in {0, 3}, n \in TruncLengths }

\* Outcomes of one session.get(url, timeout=10) with the page read and extracted.
ErrorOutcomes ==
    { [kind |-> "timeout"],
      [kind |-> "client_error", e |-> "Connection reset"],
      [kind |-> "exception", e |-> "boom"],
      [kind |-> "response", status |-> 404, extracted |-> NoExtract],
      [kind |-> "response", status |-> 204, extracted |-> NoExtract],
      [kind |-> "response", status |-> StatusOK, extracted |-> NoExtract],
      [kind |-> "response", status |-> StatusOK, extracted |-> Extracted(<<>>)] }

ContentOutcomes(texts) ==
    { [kind |-> "response", status |-> StatusOK, extracted |-> Extracted(t)] : t \in texts }

PageOutcomes == ErrorOutcomes \cup ContentOutcomes(PageTexts)

\* The page outcomes of the request specification: one error and both contents
\* (run_conversation reads a result only through 'error' in result, its url and
\* its content).
RequestOutcomes == { [kind |-> "timeout"] } \cup ContentOutcomes(PageTexts)

\* Sequences over S of length at most n.
RECURSIVE SeqsUpTo(_, _)
SeqsUpTo(S, n) ==
    IF n = 0 THEN {<<>>}
    ELSE LET shorter == SeqsUpTo(S, n - 1)
         IN shorter \cup { Append(q, x) : q \in { r \in shorter : Len(r) = n - 1 }, x \in S }

\* Answers of the search provider to the POST: an exception (raised by the POST
\* or by response.json()), a response with its status and the 'organic' list of
\* its JSON body, or a response whose JSON body is no object.
NoAnswer == [kind |-> "none"]

SearchOutcomes ==
    { [kind |-> "exception", e |-> "Cannot connect to host"],
      [kind |-> "response", status |-> 500, organic |-> <<>>],
      [kind |-> "response", status |-> 403, organic |-> <<>>],
      [kind |-> "not_a_dict", status |-> StatusOK] }
    \cup { [kind |-> "response", status |-> StatusOK, organic |-> o] :
             o \in SeqsUpTo({ [link |-> u] : u \in Urls }, MaxUrls) }
    \cup { [kind |-> "response", status |-> StatusOK, organic |-> <<[title |-> "no link"]>>] }

\* ------------------------------------------------------ search_and_parse
\* The error strings of the pipeline: the fixed part and the interpolated part.
Error(msg, arg) == [msg |-> msg, arg |-> arg]

\* SearchRefused testing for a server error only.
SearchRefused_ServerErrorsOnly(resp) == resp.status >= 500

\* Line 45: the response of the search provider is refused.
SearchRefused(resp) == resp.status # StatusOK

\* Lines 46 and 49: the one-element list returned when the search call fails.
SearchErrorResult(resp) ==
    IF resp.kind = "exception"
    THEN << [error |-> Error("Error during search API request: ", resp.e)] >>
    ELSE << [error |-> Error("Serper API request failed with status code ", ToString(resp.status))] >>

\* Line 53: the links of the organic results that carry one, in order.
RECURSIVE LinksOf(_)
LinksOf(organic) ==
    IF organic = <<>> THEN <<>>
    ELSE LET rest == LinksOf(Tail(organic))
         IN IF "link" \in DOMAIN Head(organic) THEN <<Head(organic).link>> \o rest ELSE rest

\* StoredContent with the slice one character too long.
StoredContent_OffByOne(t) == Slice(t, ContentLimit + 1)

\* Line 65: the content attached to a result.
StoredContent(t) == Slice(t, ContentLimit)

\* PageResult taking every 2xx status for a success.
PageResult_Any2xx(url, o) ==
    CASE o.kind = "timeout" -> [url |-> url, error |-> Error("Request timed out", "")]
      [] o.kind = "client_error" -> [url |-> url, error |-> Error("Client error: ", o.e)]
      [] o.kind = "exception" -> [url |-> url, error |-> Error("Unexpected error: ", o.e)]
      [] OTHER ->
           IF o.status \in 200..299
           THEN IF ~o.extracted.isNone /\ o.extracted.text # <<>>
                THEN [url |-> url, content |-> Slice(o.extracted.text, ContentLimit)]
                ELSE [url |-> url, error |-> Error("No main content extracted", "")]
           ELSE [url |-> url, error |-> Error("Failed to retrieve content: HTTP ", ToString(o.status))]

\* Lines 58-75: the result recorded for one URL, given what its fetch did.
PageResult(url, o) ==
    CASE o.kind = "timeout" -> [url |-> url, error |-> Error("Request timed out", "")]
      [] o.kind = "client_error" -> [url |-> url, error |-> Error("Client error: ", o.e)]
      [] o.kind = "exception" -> [url |-> url, error |-> Error("Unexpected error: ", o.e)]
      [] OTHER ->
           IF o.status = StatusOK
           THEN IF ~o.extracted.isNone /\ o.extracted.text # <<>>
                THEN [url |-> url, content |-> StoredContent(o.extracted.text)]
                ELSE [url |-> url, error |-> Error("No main content extracted", "")]
           ELSE [url |-> url, error |-> Error("Failed to retrieve content: HTTP ", ToString(o.status))]

\* RecordResult keeping only the pages that gave content.
RecordResult_DropErrors(results, r) ==
    IF "error" \in DOMAIN r THEN results ELSE Append(results, r)

\* Lines 65-75: results.append(...), once per URL.
RecordResult(results, r) == Append(results, r)

\* ------------------------------------------------------ run_conversation
SystemMessage == [role |-> "system", content |-> "You are an assistant that can search the web"]
UserMessage == [role |-> "user", content |-> "user_prompt"]

\* ForwardsContent with the test written "if content:": an empty text is not
\* forwarded.
ForwardsContent_Truthy(chunk) == chunk.hasContent /\ chunk.content # <<>>

\* ForwardsContent giving way to a tool call carried by the same chunk.
ForwardsContent_UnlessToolCall(chunk) == chunk.hasContent /\ chunk.tool_calls.isNone

\* Line 132: the chunk is forwarded as text.
ForwardsContent(chunk) == chunk.hasContent

\* EntersToolBranch without the test of search_performed.
EntersToolBranch_NoFlag(chunk, performed) ==
    ~chunk.hasContent /\ ~chunk.tool_calls.isNone

\* Line 134: the chunk is looked at as a tool call.
EntersToolBranch(chunk, performed) ==
    ~ForwardsContent(chunk) /\ ~chunk.tool_calls.isNone /\ ~performed

\* IsSearchTool taking a call of any tool for the search.
IsSearchTool_Any(tool_call) == tool_call.name \in {"search_and_parse", "other_tool"}

\* Line 136.
IsSearchTool(tool_call) == tool_call.name = "search_and_parse"

\* The fragments yielded to the caller, by the line that yields them.
Content1Fragment(t) == [kind |-> "content1", text |-> t]
SearchingFragment(q) == [kind |-> "searching", query |-> q]
ErrorForFragment(u, err) == [kind |-> "error_for", url |-> u, error |-> err]
FoundFragment(u) == [kind |-> "found", url |-> u]
SummaryFragment(t) == [kind |-> "summary", text |-> t]
FinalFragment == [kind |-> "final"]
Content2Fragment(t) == [kind |-> "content2", text |-> t]
BridgeErrorFragment(e) == [kind |-> "bridge_error", prefix |-> "An error occurred: ", e |-> e]

\* Preview yielding the whole stored content.
Preview_Whole(content) == content

\* Line 147: the preview of a stored content.
Preview(content) == Slice(content, PreviewLimit)

\* Lines 143-147: what is yielded for one result of the pipeline.
Narration(result) ==
    IF "error" \in DOMAIN result
    THEN << ErrorForFragment(DictGet(result, "url", "unknown URL"), result.error) >>
    ELSE << FoundFragment(result.url), SummaryFragment(Preview(result.content)) >>

\* AppendToolResult appending only a result list that holds a page.
AppendToolResult_SkipUnusable(msgs, res) ==
    IF \E i \in DOMAIN res : "url" \in DOMAIN res[i]
    THEN Append(msgs, [role |-> "function", name |-> "search_and_parse", content |-> JsonDumps(res)])
    ELSE msgs

\* AppendToolResult carrying the previews that were narrated, not the contents.
AppendToolResult_Previews(msgs, res) ==
    Append(msgs, [role |-> "function", name |-> "search_and_parse",
                  content |-> JsonDumps([i \in DOMAIN res |->
                      IF "content" \in DOMAIN res[i]
                      THEN [url |-> res[i].url, content |-> Preview(res[i].content)]
                      ELSE res[i]])])

\* AppendToolResult putting the tool result right after the system message.
AppendToolResult_Insert(msgs, res) ==
    << Head(msgs), [role |-> "function", name |-> "search_and_parse", content |-> JsonDumps(res)] >>
        \o Tail(msgs)

\* Lines 150-154: the tool-result message is appended.
AppendToolResult(msgs, res) ==
    Append(msgs, [role |-> "function", name |-> "search_and_parse", content |-> JsonDumps(res)])

\* EmitFinal with the announcement left out.
EmitFinal_Skipped(o) == o

\* Line 163.
EmitFinal(o) == Append(o, FinalFragment)

\* ------------------------------------------------------ generate_stream
\* BridgeOnException yielding the error fragment in place of the output so far.
BridgeOnException_Restart(o, e) == << BridgeErrorFragment(e) >>

\* Lines 178-179: the exception is turned into one last fragment.
BridgeOnException(o, e) == Append(o, BridgeErrorFragment(e))

\* ------------------------------------------------------------ the state
VARIABLES
    pc,               \* where the request is: idle, stream1, tool, search, fetch,
                      \* narrate, stream2, done, cancelled
    messages,         \* run_conversation: the conversation
    opens,            \* the calls of client.chat.completions.create, in order
    recv1,            \* the chunks read from stream 1 so far
    recv2,            \* the chunks read from final_stream so far
    search_performed, \* run_conversation: the flag of line 130
    query,            \* function_args.get('query') of the honoured tool call
    searchPosts,      \* number of POSTs sent to the search provider
    answer,           \* what the search provider answered to the POST
    urls,             \* search_and_parse: the URLs of line 53
    results,          \* search_and_parse: the list of line 55
    inflight,         \* indexes of urls whose GET is in flight
    gets,             \* the URLs of the GETs issued, in order
    outcomes,         \* what each finished GET did, in order
    search_results,   \* run_conversation: the list returned by the pipeline
    narrated,         \* number of results of search_results narrated so far
    out,              \* the fragments generate_stream has yielded
    failed,           \* the exception caught by generate_stream, or None
    streams           \* the model streams (1: stream, 2: final_stream) whose
                      \* connection is open

vars == << pc, messages, opens, recv1, recv2, search_performed, query, searchPosts,
           answer, urls, results, inflight, gets, outcomes, search_results, narrated, out, failed,
           streams >>

pipelineVars == << answer, urls, results, inflight, gets, outcomes >>

Init ==
    /\ pc = "idle"
    /\ messages = << SystemMessage, UserMessage >>
    /\ opens = <<>>
    /\ recv1 = <<>>
    /\ recv2 = <<>>
    /\ search_performed = FALSE
    /\ query = None
    /\ searchPosts = 0
    /\ answer = NoAnswer
    /\ urls = <<>>
    /\ results = <<>>
    /\ inflight = {}
    /\ gets = <<>>
    /\ outcomes = <<>>
    /\ search_results = <<>>
    /\ narrated = 0
    /\ out = <<>>
    /\ failed = None
    /\ streams = {}

\* An exception leaves run_conversation: generate_stream catches it (line 178),
\* yields its fragment and ends.
Raise(e) ==
    /\ out' = BridgeOnException(out, e)
    /\ failed' = e
    /\ pc' = "done"

\* Lines 119-128: stream 1 is opened with the tool declared.
OpenStream1 ==
    /\ pc = "idle"
    /\ opens' = Append(opens, [tools |-> TRUE, messages |-> messages])
    /\ pc' = "stream1"
    /\ UNCHANGED << messages, recv1, recv2, search_performed, query, searchPosts,
                    pipelineVars, search_results, narrated, out, failed >>
    /\ streams' = streams \cup {1}

OpenStream1Fails ==
    /\ pc = "idle"
    /\ opens' = Append(opens, [tools |-> TRUE, messages |-> messages])
    /\ Raise("APIConnectionError")
    /\ UNCHANGED << messages, recv1, recv2, search_performed, query, searchPosts,
                    pipelineVars, search_results, narrated >>
    /\ UNCHANGED streams

\* Lines 131-139: one chunk of stream 1 is read and handled, up to the next
\* point where the generator is suspended.
ReadChunk1(chunk) ==
    /\ pc = "stream1"
    /\ Len(recv1) < MaxChunks1
    /\ recv1' = Append(recv1, chunk)
    /\ IF ForwardsContent(chunk)
       THEN /\ out' = Append(out, Content1Fragment(chunk.content))
            /\ UNCHANGED << pc, search_performed, query, failed >>
       ELSE IF EntersToolBranch(chunk, search_performed) /\ IsSearchTool(chunk.tool_calls)
       THEN /\ search_performed' = TRUE
            /\ LET function_args == JsonLoads(chunk.tool_calls.arguments)
               IN IF function_args.ok
                  THEN /\ query' = DictGet(function_args.val, "query", None)
                       /\ out' = Append(out, SearchingFragment(query'))
                       /\ pc' = "tool"
                       /\ UNCHANGED failed
                  ELSE /\ Raise("JSONDecodeError")
                       /\ UNCHANGED query
       ELSE UNCHANGED << pc, search_performed, query, out, failed >>
    /\ UNCHANGED << messages, opens, recv2, searchPosts, pipelineVars, search_results, narrated >>
    /\ UNCHANGED streams

\* Line 131: stream 1 is exhausted, run_conversation returns.
EndStream1 ==
    /\ pc = "stream1"
    /\ pc' = "done"
    /\ UNCHANGED << messages, opens, recv1, recv2, search_performed, query, searchPosts,
                    pipelineVars, search_results, narrated, out, failed >>
    /\ streams' = streams \ {1}

\* Line 131: reading stream 1 raises.
ReadStream1Fails ==
    /\ pc = "stream1"
    /\ Raise("APIError")
    /\ UNCHANGED << messages, opens, recv1, recv2, search_performed, query, searchPosts,
                    pipelineVars, search_results, narrated >>
    /\ streams' = streams \ {1}

\* Lines 141, 42-44: search_and_parse is called and sends its POST.
SearchPost ==
    /\ pc = "tool"
    /\ searchPosts' = searchPosts + 1
    /\ answer' = NoAnswer
    /\ urls' = <<>>
    /\ results' = <<>>
    /\ pc' = "search"
    /\ UNCHANGED << messages, opens, recv1, recv2, search_performed, query,
                    inflight, gets, outcomes, search_results, narrated, out, failed >>
    /\ UNCHANGED streams

\* Lines 44-55: the search provider answers.
SearchAnswers(resp) ==
    /\ pc = "search"
    /\ answer' = resp
    /\ IF resp.kind = "exception" \/ SearchRefused(resp)
       THEN /\ search_results' = SearchErrorResult(resp)
            /\ narrated' = 0
            /\ pc' = "narrate"
            /\ UNCHANGED << urls, out, failed >>
       ELSE IF resp.kind = "not_a_dict"
       THEN \* line 52: search_results.get raises outside the try
            /\ Raise("AttributeError")
            /\ UNCHANGED << urls, search_results, narrated >>
       ELSE /\ urls' = LinksOf(resp.organic)
            /\ pc' = "fetch"
            /\ UNCHANGED << search_results, narrated, out, failed >>
    /\ UNCHANGED << messages, opens, recv1, recv2, search_performed, query, searchPosts,
                    results, inflight, gets, outcomes >>
    /\ UNCHANGED streams

\* Lines 57-59: the GET of URL number i is sent.
BeginFetch(i) ==
    /\ pc = "fetch"
    /\ inflight = {}
    /\ i = Len(results) + 1
    /\ i <= Len(urls)
    /\ inflight' = {i}
    /\ gets' = Append(gets, urls[i])
    /\ UNCHANGED << pc, messages, opens, recv1, recv2, search_performed, query, searchPosts,
                    answer, urls, results, outcomes, search_results, narrated, out, failed >>
    /\ UNCHANGED streams

StartFetch == \E i \in 1..MaxUrls : BeginFetch(i)

\* Lines 59-75: the GET in flight ends with outcome o and its result is recorded.
FinishFetch(o) ==
    /\ pc = "fetch"
    /\ \E i \in inflight :
         /\ results' = RecordResult(results, PageResult(urls[i], o))
         /\ inflight' = inflight \ {i}
    /\ outcomes' = Append(outcomes, o)
    /\ UNCHANGED << pc, messages, opens, recv1, recv2, search_performed, query, searchPosts,
                    answer, urls, gets, search_results, narrated, out, failed >>
    /\ UNCHANGED streams

\* UrlsExhausted expecting one result more than there are URLs.
UrlsExhausted_OffByOne(res, us) == Len(res) > Len(us)

\* Line 57: the for loop has gone through every URL.
UrlsExhausted(res, us) == Len(res) >= Len(us)

\* Lines 56-77, 141: the loop over the URLs is over, the pipeline returns.
PipelineReturns ==
    /\ pc = "fetch"
    /\ inflight = {}
    /\ UrlsExhausted(results, urls)
    /\ search_results' = results
    /\ narrated' = 0
    /\ pc' = "narrate"
    /\ UNCHANGED << messages, opens, recv1, recv2, search_performed, query, searchPosts,
                    pipelineVars, out, failed >>
    /\ UNCHANGED streams

\* Lines 142-147: the next result is narrated.
Narrate ==
    /\ pc = "narrate"
    /\ narrated < Len(search_results)
    /\ out' = out \o Narration(search_results[narrated + 1])
    /\ narrated' = narrated + 1
    /\ UNCHANGED << pc, messages, opens, recv1, recv2, search_performed, query, searchPosts,
                    pipelineVars, search_results, failed >>
    /\ UNCHANGED streams

\* Lines 150-163: the result is appended to the conversation, stream 2 is
\* opened without tools and announced.
OpenStream2 ==
    /\ pc = "narrate"
    /\ narrated >= Len(search_results)
    /\ messages' = AppendToolResult(messages, search_results)
    /\ opens' = Append(opens, [tools |-> FALSE, messages |-> messages'])
    /\ recv2' = <<>>
    /\ out' = EmitFinal(out)
    /\ pc' = "stream2"
    /\ UNCHANGED << recv1, search_performed, query, searchPosts, pipelineVars,
                    search_results, narrated, failed >>
    /\ streams' = streams \cup {2}

OpenStream2Fails ==
    /\ pc = "narrate"
    /\ narrated >= Len(search_results)
    /\ messages' = AppendToolResult(messages, search_results)
    /\ opens' = Append(opens, [tools |-> FALSE, messages |-> messages'])
    /\ Raise("APIConnectionError")
    /\ UNCHANGED << recv1, recv2, search_performed, query, searchPosts, pipelineVars,
                    search_results, narrated >>
    /\ UNCHANGED streams

\* Lines 164-166: one chunk of stream 2 is read and handled.
ReadChunk2(chunk) ==
    /\ pc = "stream2"
    /\ Len(recv2) < MaxChunks2
    /\ recv2' = Append(recv2, chunk)
    /\ out' = IF ForwardsContent(chunk) THEN Append(out, Content2Fragment(chunk.content)) ELSE out
    /\ UNCHANGED << pc, messages, opens, recv1, search_performed, query, searchPosts,
                    pipelineVars, search_results, narrated, failed >>
    /\ UNCHANGED streams

\* Line 164: stream 2 is exhausted; control is back in the loop of line 131.
EndStream2 ==
    /\ pc = "stream2"
    /\ pc' = "stream1"
    /\ UNCHANGED << messages, opens, recv1, recv2, search_performed, query, searchPosts,
                    pipelineVars, search_results, narrated, out, failed >>
    /\ streams' = streams \ {2}

\* Line 164: reading stream 2 raises.
ReadStream2Fails ==
    /\ pc = "stream2"
    /\ Raise("APIError")
    /\ UNCHANGED << messages, opens, recv1, recv2, search_performed, query, searchPosts,
                    pipelineVars, search_results, narrated >>
    /\ streams' = streams \ {2}

Next ==
    \/ OpenStream1
    \/ OpenStream1Fails
    \/ \E chunk \in Chunks1 : ReadChunk1(chunk)
    \/ EndStream1
    \/ ReadStream1Fails
    \/ SearchPost
    \/ \E resp \in SearchOutcomes : SearchAnswers(resp)
    \/ StartFetch
    \/ \E o \in RequestOutcomes : FinishFetch(o)
    \/ PipelineReturns
    \/ Narrate
    \/ OpenStream2
    \/ OpenStream2Fails
    \/ \E chunk \in Chunks2 : ReadChunk2(chunk)
    \/ EndStream2
    \/ ReadStream2Fails

\* A whole request.
Spec == Init /\ [][Next]_vars

\* A whole request in which every awaited operation ends: the model streams
\* deliver a chunk, end or fail, the search provider answers, and a GET answers
\* or runs into its timeout (line 59), so the request takes its next step.
FairSpec == Spec /\ WF_vars(Next)

\* ------------------------------------------------- the caller disconnects
\* The task serving the response is cancelled: asyncio.CancelledError is raised
\* where the request is suspended and, being no Exception, passes the handlers
\* of lines 48, 70-75 and 178, so nothing is recorded and nothing is yielded.
\* The GET in flight is released by the async with of line 59, and the stream
\* being read (line 131 or 164) has the cancellation raised inside its read,
\* which ends it. Neither stream nor final_stream is closed by run_conversation
\* (lines 119-166 have no async with, no finally and no close): whether a
\* stream that is open but not being read has released its connection is left
\* to the finalisation of the abandoned objects, so it may still be open.
StreamBeingRead ==
    IF pc = "stream1" THEN {1} ELSE IF pc = "stream2" THEN {2} ELSE {}

Disconnect ==
    /\ pc \notin {"done", "cancelled"}
    /\ pc' = "cancelled"
    /\ inflight' = {}
    /\ \E released \in SUBSET (streams \ StreamBeingRead) :
          streams' = (streams \ StreamBeingRead) \ released
    /\ UNCHANGED << messages, opens, recv1, recv2, search_performed, query, searchPosts,
                    answer, urls, results, gets, outcomes, search_results, narrated, out, failed >>

CancelNext == Next \/ Disconnect

\* A request the caller may disconnect from at any point.
CancelSpec == Init /\ [][CancelNext]_vars

\* ------------------------------------------------- one pipeline run
\* The request whose stream 1 begins with the search_and_parse tool call, at the
\* call of search_and_parse (line 141); every page outcome is drawn.
ToolCallChunk ==
    [hasContent |-> FALSE, content |-> <<>>, tool_calls |-> ToolCall("search_and_parse", ArgsQuery)]

PipelineInit ==
    /\ pc = "tool"
    /\ messages = << SystemMessage, UserMessage >>
    /\ opens = << [tools |-> TRUE, messages |-> << SystemMessage, UserMessage >>] >>
    /\ recv1 = << ToolCallChunk >>
    /\ recv2 = <<>>
    /\ search_performed = TRUE
    /\ query = "paris"
    /\ searchPosts = 0
    /\ answer = NoAnswer
    /\ urls = <<>>
    /\ results = <<>>
    /\ inflight = {}
    /\ gets = <<>>
    /\ outcomes = <<>>
    /\ search_results = <<>>
    /\ narrated = 0
    /\ out = << SearchingFragment("paris") >>
    /\ failed = None
    /\ streams = {1}

PipelineNext ==
    \/ SearchPost
    \/ \E resp \in SearchOutcomes : SearchAnswers(resp)
    \/ StartFetch
    \/ \E o \in PageOutcomes : FinishFetch(o)
    \/ PipelineReturns

PipelineSpec == PipelineInit /\ [][PipelineNext]_vars

\* ------------------------------------------------- one page's content
\* The same request while the GET of the only URL is in flight; the page is
\* fetched, extracted to a text of TruncTexts, stored and narrated.
TruncInit ==
    /\ pc = "fetch"
    /\ messages = << SystemMessage, UserMessage >>
    /\ opens = << [tools |-> TRUE, messages |-> << SystemMessage, UserMessage >>] >>
    /\ recv1 = << ToolCallChunk >>
    /\ recv2 = <<>>
    /\ search_performed = TRUE
    /\ query = "paris"
    /\ searchPosts = 1
    /\ answer = [kind |-> "response", status |-> StatusOK, organic |-> << [link |-> "u1"] >>]
    /\ urls = << "u1" >>
    /\ results = <<>>
    /\ inflight = {1}
    /\ gets = << "u1" >>
    /\ outcomes = <<>>
    /\ search_results = <<>>
    /\ narrated = 0
    /\ out = << SearchingFragment("paris") >>
    /\ failed = None
    /\ streams = {1}

TruncNext ==
    \/ \E o \in ContentOutcomes(TruncTexts) : FinishFetch(o)
    \/ PipelineReturns
    \/ Narrate
    \/ OpenStream2
    \/ EndStream2
    \/ EndStream1

TruncSpec == TruncInit /\ [][TruncNext]_vars

\* PipelineInit and TruncInit are states of a request: TLC refutes both of
\* these under Spec.
NeverPipelineInit == ~PipelineInit
NeverTruncInit == ~TruncInit

\* ------------------------------------------------------------ the claims
HasToolSignal(chunk) == ~chunk.tool_calls.isNone

\* The text fragments of a sequence of stream-1 chunks, in order.
RECURSIVE TextFragmentsOf(_)
TextFragmentsOf(chunks) ==
    IF chunks = <<>> THEN <<>>
    ELSE IF Head(chunks).hasContent
         THEN <<[kind |-> "content1", text |-> Head(chunks).content]>> \o TextFragmentsOf(Tail(chunks))
         ELSE TextFragmentsOf(Tail(chunks))

KindsOf(o) == { o[i].kind : i \in DOMAIN o }
PositionsOf(o, k) == { i \in DOMAIN o : o[i].kind = k }

\* C1: within one request the pipeline runs at most once: at most one POST goes
\* to the search provider, and a tool-invocation signal read after the honoured
\* one sends no POST, starts no GET and yields no fragment.
C1_SinglePipelineRun ==
    /\ [](searchPosts <= 1)
    /\ [][ \A c \in Chunks1 :
             ( /\ search_performed
               /\ HasToolSignal(c)
               /\ ~c.hasContent
               /\ recv1' = Append(recv1, c) )
             => /\ searchPosts' = searchPosts
                /\ gets' = gets
                /\ out' = out
                /\ pc' = pc ]_vars

\* Two search_and_parse signals were read, the first was honoured and the
\* second left the request where it was.
C1_Witness ==
    /\ Len(recv1) = 2
    /\ recv1[1] = ToolCallChunk
    /\ recv1[2] = ToolCallChunk
    /\ searchPosts = 1
    /\ pc = "stream1"

\* C2: while stream 1 has carried no tool-invocation signal, stream 2 is never
\* opened, and the fragments yielded are the text fragments of the chunks read,
\* in order (followed by the bridge's fragment if the stream failed).
C2_PlainStreamVerbatim ==
    (\A i \in DOMAIN recv1 : ~HasToolSignal(recv1[i]))
    => /\ Len(opens) <= 1
       /\ \A i \in DOMAIN opens : opens[i].tools
       /\ searchPosts = 0
       /\ failed = None => out = TextFragmentsOf(recv1)
       /\ failed # None => out = Append(TextFragmentsOf(recv1), BridgeErrorFragment(failed))

\* A plain stream 1 of two chunks, one with an empty text and one without
\* content, has ended.
C2_Witness ==
    /\ pc = "done"
    /\ failed = None
    /\ Len(recv1) = 2
    /\ \A i \in DOMAIN recv1 : ~HasToolSignal(recv1[i])
    /\ recv1[1].hasContent /\ recv1[1].content = <<>>
    /\ ~recv1[2].hasContent
    /\ Len(out) = 1

\* The place of a fragment in the order of a tool request.
Rank(f) ==
    CASE f.kind = "searching" -> 1
      [] f.kind \in {"error_for", "found", "summary"} -> 2
      [] f.kind = "final" -> 3
      [] f.kind = "content2" -> 4
      [] OTHER -> 0

IsRanked(f) == Rank(f) > 0

\* C3: in the output of a request the progress fragment comes first, then the
\* narration of the results, then the one final-response fragment, then the
\* text of stream 2: these fragments never appear out of that order, a narration
\* follows the progress fragment, and a stream-2 text follows the final-response
\* fragment.
C3_ToolOutputOrder ==
    /\ LET ranked == SelectSeq(out, IsRanked)
       IN \A i \in 1..(Len(ranked) - 1) : Rank(ranked[i]) <= Rank(ranked[i + 1])
    /\ Cardinality(PositionsOf(out, "searching")) <= 1
    /\ Cardinality(PositionsOf(out, "final")) <= 1
    /\ \A j \in DOMAIN out :
         Rank(out[j]) >= 2 => \E i \in 1..(j - 1) : out[i].kind = "searching"
    /\ \A j \in DOMAIN out :
         out[j].kind = "content2" => \E i \in 1..(j - 1) : out[i].kind = "final"
    /\ Len(opens) = 2 /\ failed = None => PositionsOf(out, "final") # {}

\* A request whose output holds every kind of fragment of a tool request.
C3_Witness ==
    {"searching", "error_for", "found", "summary", "final", "content2"} \subseteq KindsOf(out)

\* C4 (the claim as stated; the code breaks it): once the progress fragment of
\* a tool invocation is out, no text fragment of stream 1 is yielded any more.
C4_NoStream1TextAfterTool ==
    \A i, j \in DOMAIN out :
        (i < j /\ out[i].kind = "searching") => out[j].kind # "content1"

\* What the search provider answered: URLs, or a failure.
SearchFailed == answer.kind = "exception" \/ (answer.kind = "response" /\ answer.status # 200)
SearchGaveUrls == answer.kind = "response" /\ answer.status = 200

\* The pipeline has returned its list to run_conversation.
PipelineReturned ==
    /\ searchPosts >= 1
    /\ answer.kind \in {"exception", "response"}
    /\ pc \notin {"search", "fetch"}

\* C5: when the search provider returns N URLs, the results recorded so far
\* are those of the first URLs of its list, one per URL and in its order, and
\* the list the pipeline returns has exactly N entries, the i-th for the i-th
\* URL, whatever each fetch did.
C5_OneResultPerUrlInOrder ==
    SearchGaveUrls =>
        /\ urls = LinksOf(answer.organic)
        /\ Len(results) <= Len(urls)
        /\ Len(results) = Len(outcomes)
        /\ \A i \in DOMAIN results : results[i].url = urls[i]
        /\ PipelineReturned =>
             /\ Len(search_results) = Len(urls)
             /\ \A i \in DOMAIN urls : search_results[i].url = urls[i]

\* A pipeline run over two different URLs has returned; the first URL timed
\* out and the second gave content.
C5_Witness ==
    /\ PipelineReturned
    /\ Len(urls) = 2
    /\ urls[1] # urls[2]
    /\ outcomes[1].kind = "timeout"
    /\ "content" \in DOMAIN search_results[2]

\* C6 (the claim as stated; the code breaks it): while the GET of a URL is in
\* flight, the GET of a later URL that has not been sent can be sent.
C6_FetchesStartConcurrently ==
    \A i \in inflight : \A j \in DOMAIN urls :
        (i < j /\ j > Len(gets)) => ENABLED BeginFetch(j)

\* C7: the pipeline sends one POST to the search provider, and sends it before
\* any GET; when the provider fails (an exception or a status other than 200)
\* the pipeline returns a list of exactly one element, an error, no GET is sent
\* and no exception reaches the caller.
C7_SearchOnceAndFailureContained ==
    /\ searchPosts <= 1
    /\ (pc \in {"search", "fetch"} \/ gets # <<>>) => searchPosts = 1
    /\ gets # <<>> => SearchGaveUrls
    /\ SearchFailed =>
         /\ PipelineReturned
         /\ Len(search_results) = 1
         /\ "error" \in DOMAIN search_results[1]
         /\ "url" \notin DOMAIN search_results[1]
         /\ gets = <<>>
         /\ inflight = {}
         /\ failed = None

\* The search provider answered with status 403 and the pipeline has returned.
C7_Witness ==
    /\ answer.kind = "response"
    /\ answer.status = 403
    /\ PipelineReturned
    /\ Len(search_results) = 1

\* The result list holds no page: a search error, or no URL at all.
NoUsableUrls == SearchFailed \/ (SearchGaveUrls /\ urls = <<>>)

\* The request is past the narration of the pipeline's result.
PastNarration == PipelineReturned /\ pc \in {"stream2", "stream1", "done"}

\* C8: when the pipeline returns a search error or no result at all, the
\* request goes on: nothing is raised while the result is narrated, the
\* tool-result message carrying the result is appended and stream 2 is opened,
\* a failure can only come from a model stream, and the request is done or can
\* take a step.
C8_UnusableResultDoesNotAbort ==
    (NoUsableUrls /\ PipelineReturned) =>
        /\ pc = "narrate" => failed = None
        /\ PastNarration =>
             /\ Len(messages) = 3
             /\ messages[3].role = "function"
             /\ messages[3].content = [json |-> search_results]
             /\ Len(opens) = 2
             /\ opens[2].messages = messages
             /\ failed \in {None, "APIConnectionError", "APIError"}
        /\ pc = "done" \/ ENABLED Next

\* A request whose search failed with status 500 is done without a failure.
C8_Witness ==
    /\ pc = "done"
    /\ failed = None
    /\ answer.kind = "response"
    /\ answer.status = 500
    /\ Len(messages) = 3

IsBridgeError(f) == f.kind = "bridge_error"

\* C9: a failure of the orchestrator ends the request with exactly one bridge
\* fragment "An error occurred: ..." as the last fragment of the output: the
\* step that fails appends that fragment to the output yielded so far and
\* nothing else, the request is then done, and without a failure there is no
\* such fragment.
C9_FailureBecomesLastFragment ==
    /\ [](failed # None =>
            /\ pc = "done"
            /\ out # <<>>
            /\ IsBridgeError(out[Len(out)])
            /\ out[Len(out)].prefix = "An error occurred: "
            /\ out[Len(out)].e = failed
            /\ Cardinality({ i \in DOMAIN out : IsBridgeError(out[i]) }) = 1)
    /\ [](failed = None => \A i \in DOMAIN out : ~IsBridgeError(out[i]))
    /\ [][ (failed = None /\ failed' # None) =>
             /\ Len(out') = Len(out) + 1
             /\ SubSeq(out', 1, Len(out)) = out ]_vars
    /\ [][ pc # "done" ]_vars

\* Stream 2 failed while it was read, after five fragments or more.
C9_Witness ==
    /\ failed = "APIError"
    /\ Len(opens) = 2
    /\ Len(out) >= 6

\* C10: the content stored for a page is the extracted text itself when that
\* has at most 1000 characters and its first 1000 characters otherwise, so
\* that slicing it again to 1000 changes nothing; the preview narrated for it
\* is the first 200 characters of the stored content, a prefix of it.
C10_TruncationAndPreview ==
    /\ \A i \in DOMAIN results :
         LET t == outcomes[i].extracted.text
             c == results[i].content
         IN /\ Len(t) <= 1000 => c = t
            /\ Len(t) > 1000 => (Len(c) = 1000 /\ \A k \in 1..1000 : c[k] = t[k])
            /\ SubSeq(c, 1, Min(Len(c), 1000)) = c
    /\ \A k \in DOMAIN out :
         out[k].kind = "summary" =>
            LET c == search_results[1].content
                p == out[k].text
            IN /\ Len(p) = Min(Len(c), 200)
               /\ \A n \in 1..Len(p) : p[n] = c[n]

\* A page whose extracted text has more than 1000 characters was stored and
\* narrated.
C10_Witness ==
    /\ Len(outcomes) = 1
    /\ Len(outcomes[1].extracted.text) > 1000
    /\ \E k \in DOMAIN out : out[k].kind = "summary"

IsPrefixOf(s, t) == Len(s) <= Len(t) /\ SubSeq(t, 1, Len(s)) = s

\* C11: the conversation always starts with the system message followed by
\* the user message, it holds at most one tool-result message, and a step
\* changes it only by appending at its end.
C11_ConversationAppendOnly ==
    /\ [](/\ Len(messages) >= 2
          /\ messages[1] = [role |-> "system", content |-> "You are an assistant that can search the web"]
          /\ messages[2] = [role |-> "user", content |-> "user_prompt"]
          /\ Cardinality({ i \in DOMAIN messages : messages[i].role = "function" }) <= 1)
    /\ [][ IsPrefixOf(messages, messages') ]_vars

\* The tool result was appended, and a second search_and_parse signal was read
\* afterwards.
C11_Witness ==
    /\ Len(messages) = 3
    /\ messages[3].role = "function"
    /\ Len(recv1) = 2
    /\ recv1[2] = ToolCallChunk
    /\ pc = "stream1"

\* C12: stream 2 is opened at most once and without tools, after the pipeline
\* has returned and its result was narrated, over the conversation that ends
\* with the tool-result message carrying the pipeline's result with its full
\* contents (the first 1000 characters of each extracted text); while stream 2
\* is read no POST and no GET is sent and no stream is opened.
C12_Stream2AfterReinjection ==
    /\ [](/\ Len(opens) <= 2
          /\ \A i \in DOMAIN opens : opens[i].tools <=> (i = 1)
          /\ Len(opens) = 2 =>
               /\ PipelineReturned
               /\ narrated = Len(search_results)
               /\ Len(opens[2].messages) = 3
               /\ opens[2].messages[3].role = "function"
               /\ opens[2].messages[3].content = [json |-> search_results]
               /\ \A i \in DOMAIN search_results :
                    "content" \in DOMAIN search_results[i] =>
                       LET t == outcomes[i].extracted.text
                       IN search_results[i].content = SubSeq(t, 1, Min(Len(t), 1000)))
    /\ [][ pc = "stream2" =>
             /\ searchPosts' = searchPosts
             /\ gets' = gets
             /\ opens' = opens
             /\ messages' = messages
             /\ pc' \in {"stream2", "stream1", "done"} ]_vars

\* Stream 2 was opened over a result whose content is longer than its preview,
\* and a tool call has arrived on it.
C12_Witness ==
    /\ Len(opens) = 2
    /\ \E i \in DOMAIN search_results :
         "content" \in DOMAIN search_results[i] /\ Len(search_results[i].content) > 200
    /\ \E i \in DOMAIN recv2 : HasToolSignal(recv2[i])

\* C13: every request eventually is done, with or without a tool invocation,
\* when every awaited operation ends.
C13_EventuallyDone == <>(pc = "done")

\* A request with a tool invocation is done although a fetch timed out.
C13_Witness ==
    /\ pc = "done"
    /\ failed = None
    /\ \E i \in DOMAIN outcomes : outcomes[i].kind = "timeout"
    /\ Len(opens) = 2

IsNarration(f) == f.kind \in {"error_for", "found", "summary"}

\* What the caller is to read for a list of results: for a result with an error
\* a fragment naming its URL ("unknown URL" for the search error, which has
\* none), for a result with a content the fragment naming its URL followed by
\* the fragment holding the first 200 characters of the content.
RECURSIVE NarrationsInOrder(_)
NarrationsInOrder(res) ==
    IF res = <<>> THEN <<>>
    ELSE LET r == Head(res)
             one == IF "error" \in DOMAIN r
                    THEN << [kind |-> "error_for",
                             url |-> IF "url" \in DOMAIN r THEN r.url ELSE "unknown URL",
                             error |-> r.error] >>
                    ELSE << [kind |-> "found", url |-> r.url],
                            [kind |-> "summary", text |-> SubSeq(r.content, 1, Min(Len(r.content), 200))] >>
         IN  one \o NarrationsInOrder(Tail(res))

\* C14: the narration fragments of the output are, in the order of the
\* returned list, those of the results narrated so far, one narration per
\* result, an error result by the fragment naming its URL and a content result
\* by the fragments naming its URL and holding its 200-character preview; they
\* lie after the progress fragment and before the final-response fragment,
\* and once the final-response fragment is out every result has been narrated.
C14_NarrationPerResult ==
    /\ narrated <= Len(search_results)
    /\ SelectSeq(out, IsNarration) = NarrationsInOrder(SubSeq(search_results, 1, narrated))
    /\ \A i \in DOMAIN out :
          IsNarration(out[i]) =>
             /\ \E j \in 1..(i - 1) : out[j].kind = "searching"
             /\ \A j \in 1..(i - 1) : out[j].kind # "final"
    /\ "final" \in KindsOf(out) => narrated = Len(search_results)
    /\ pc \in {"stream2", "stream1", "done"} /\ PipelineReturned => narrated = Len(search_results)

\* A list with an error result and a content result longer than the preview has
\* been narrated and the final-response fragment is out.
C14_Witness ==
    /\ "final" \in KindsOf(out)
    /\ Len(search_results) = 2
    /\ \E i \in DOMAIN search_results : "error" \in DOMAIN search_results[i]
    /\ \E i \in DOMAIN search_results :
          /\ "content" \in DOMAIN search_results[i]
          /\ Len(search_results[i].content) > PreviewLimit
    /\ Len(SelectSeq(out, IsNarration)) = 3

\* The kinds of result of the pipeline for one URL, told apart by what the
\* result says.
IsTimedOut(r) == "error" \in DOMAIN r /\ r.error.msg = "Request timed out"
IsHttpStatus(r, code) ==
    "error" \in DOMAIN r /\ r.error.msg = "Failed to retrieve content: HTTP " /\ r.error.arg = ToString(code)
IsTransport(r) == "error" \in DOMAIN r /\ r.error.msg = "Client error: "
IsUnexpected(r) == "error" \in DOMAIN r /\ r.error.msg = "Unexpected error: "
IsNoMainContent(r) == "error" \in DOMAIN r /\ r.error.msg = "No main content extracted"
IsContent(r) == "content" \in DOMAIN r /\ "error" \notin DOMAIN r

\* The extraction gave nothing: None, or an empty text.
ExtractionEmpty(o) == o.extracted.isNone \/ o.extracted.text = <<>>

\* What the kind of a result depends on besides the status test.
KindFollowsOutcome(r, o) ==
    /\ o.kind = "timeout" <=> IsTimedOut(r)
    /\ o.kind = "client_error" <=> IsTransport(r)
    /\ o.kind = "exception" <=> IsUnexpected(r)
    /\ o.kind = "response" <=>
          \/ IsContent(r) \/ IsNoMainContent(r) \/ \E code \in {204, 404} : IsHttpStatus(r, code)

\* C16 (the claim as stated; the code breaks it): the i-th result is decided by
\* the i-th fetch outcome, and a response is reported as an HTTP-status error
\* exactly when its status is not a 2xx one.
C16_HttpErrorExactlyNon2xx ==
    \A i \in DOMAIN results :
        LET r == results[i]
            o == outcomes[i]
        IN  /\ KindFollowsOutcome(r, o)
            /\ o.kind = "response" =>
                  (IsHttpStatus(r, o.status) <=> o.status \notin 200..299)

\* C16 (amended): the i-th result is decided by the i-th fetch outcome and
\* nothing else: a timeout gives the timed-out error, a network failure the
\* client error, any other failure the unexpected error, a response whose status
\* is not 200 (a 2xx one such as 204 included) the HTTP-status error carrying
\* the code, a 200 response whose extraction is empty the no-main-content
\* error, a 200 response with an extracted text a content; every result names
\* its URL and no outcome raises out of the pipeline.
C16_ResultKindPerOutcome ==
    /\ Len(results) = Len(outcomes)
    /\ gets # <<>> => failed = None
    /\ \A i \in DOMAIN results :
        LET r == results[i]
            o == outcomes[i]
        IN  /\ r.url = urls[i]
            /\ KindFollowsOutcome(r, o)
            /\ o.kind = "response" =>
                 /\ IsHttpStatus(r, o.status) <=> o.status # 200
                 /\ IsNoMainContent(r) <=> (o.status = 200 /\ ExtractionEmpty(o))
                 /\ IsContent(r) <=> (o.status = 200 /\ ~ExtractionEmpty(o))

\* The pipeline has returned the results of a 204 response and of a 200
\* response whose extraction is an empty text.
C16_Witness ==
    /\ PipelineReturned
    /\ Len(search_results) = 2
    /\ outcomes[1].kind = "response" /\ outcomes[1].status = 204
    /\ IsHttpStatus(search_results[1], 204)
    /\ outcomes[2].kind = "response" /\ outcomes[2].status = 200
    /\ ~outcomes[2].extracted.isNone
    /\ IsNoMainContent(search_results[2])

\* A chunk without text that carries a call of another tool than the search.
IsOtherToolSignal(chunk) ==
    ~chunk.hasContent /\ HasToolSignal(chunk) /\ chunk.tool_calls.name # "search_and_parse"

\* A chunk without text that carries a call of the search tool.
IsSearchSignal(chunk) ==
    ~chunk.hasContent /\ HasToolSignal(chunk) /\ chunk.tool_calls.name = "search_and_parse"

\* C17: reading a stream-1 chunk that signals a call of a tool other than
\* search_and_parse changes nothing but the position in the stream: no fragment
\* is yielded, no POST or GET is sent, no stream is opened, the conversation and
\* the search_performed flag stay as they are; the flag is only ever set by a
\* search_and_parse signal, and such a signal read while the flag is unset is
\* honoured, whatever other-named signals came before it.
C17_OtherToolSkipped ==
    /\ [](search_performed => \E i \in DOMAIN recv1 : IsSearchSignal(recv1[i]))
    /\ [][ \A c \in Chunks1 :
             (pc = "stream1" /\ recv1' = Append(recv1, c)) =>
                /\ IsOtherToolSignal(c) =>
                     /\ out' = out /\ messages' = messages /\ opens' = opens
                     /\ searchPosts' = searchPosts /\ gets' = gets
                     /\ search_performed' = search_performed
                     /\ pc' = pc /\ failed' = failed
                /\ (c = ToolCallChunk /\ ~search_performed) =>
                     /\ search_performed'
                     /\ pc' = "tool"
                     /\ out' = Append(out, [kind |-> "searching", query |-> "paris"])
         ]_vars

\* After a call of another tool was skipped, the search_and_parse call that
\* follows it in stream 1 has been honoured and the search provider called.
C17_Witness ==
    /\ Len(recv1) = 2
    /\ IsOtherToolSignal(recv1[1])
    /\ recv1[2] = ToolCallChunk
    /\ out = << [kind |-> "searching", query |-> "paris"] >>
    /\ searchPosts = 1

\* A chunk without text that carries a search_and_parse call whose arguments
\* json.loads cannot parse.
IsUnparsableSearchSignal(chunk) ==
    IsSearchSignal(chunk) /\ chunk.tool_calls.arguments = "{\"query\": "

\* The first search_and_parse signal of the chunks read from stream 1 is their
\* last chunk and its arguments cannot be parsed.
FirstSearchSignalUnparsable ==
    /\ recv1 # <<>>
    /\ IsUnparsableSearchSignal(recv1[Len(recv1)])
    /\ \A i \in 1..(Len(recv1) - 1) : ~IsSearchSignal(recv1[i])

\* C18: when the first search_and_parse signal of stream 1 carries arguments
\* that cannot be parsed, reading it ends the request: the output is the text
\* of stream 1 forwarded before it followed by the one bridge fragment, there is
\* no progress fragment, the search provider is not called, no page is fetched,
\* the conversation holds no tool-result message, stream 2 is not opened and
\* nothing of stream 1 is read after it.
C18_UnparsableArgumentsEndRequest ==
    /\ FirstSearchSignalUnparsable =>
          /\ pc = "done"
          /\ failed = "JSONDecodeError"
          /\ out = TextFragmentsOf(recv1)
                     \o << [kind |-> "bridge_error", prefix |-> "An error occurred: ", e |-> "JSONDecodeError"] >>
          /\ "searching" \notin KindsOf(out)
          /\ searchPosts = 0
          /\ gets = <<>>
          /\ messages = << [role |-> "system", content |-> "You are an assistant that can search the web"],
                           [role |-> "user", content |-> "user_prompt"] >>
          /\ Len(opens) = 1
          /\ ~ENABLED Next
    /\ failed = "JSONDecodeError" => FirstSearchSignalUnparsable

\* A text was forwarded, then the unparsable search_and_parse call ended the
\* request with the bridge fragment.
C18_Witness ==
    /\ Len(recv1) = 2
    /\ recv1[1].hasContent /\ recv1[1].content # <<>>
    /\ IsUnparsableSearchSignal(recv1[2])
    /\ Len(out) = 2
    /\ out[2].kind = "bridge_error"
    /\ pc = "done"

\* The step appends a stream-1 text fragment to the output.
YieldsStream1Text ==
    /\ Len(out') = Len(out) + 1
    /\ out'[Len(out')].kind = "content1"

\* C19: a stream-1 chunk is handled as text or as a tool call, never as both:
\* a step that forwards a text neither sets search_performed nor leaves the
\* stream-1 loop; a chunk with a text (an empty one included) and a tool call
\* has its text forwarded and its call dropped, with no POST, no GET, no stream
\* opened, the conversation and search_performed unchanged; a chunk with
\* neither yields nothing and leaves everything but the position in the stream
\* as it is.
C19_TextOrToolNeverBoth ==
    [][ \A c \in Chunks1 :
          (pc = "stream1" /\ recv1' = Append(recv1, c)) =>
             /\ YieldsStream1Text => (search_performed' = search_performed /\ pc' = pc)
             /\ (c.hasContent /\ HasToolSignal(c)) =>
                  /\ out' = Append(out, [kind |-> "content1", text |-> c.content])
                  /\ search_performed' = search_performed
                  /\ pc' = pc /\ failed' = failed
                  /\ searchPosts' = searchPosts /\ gets' = gets
                  /\ messages' = messages /\ opens' = opens
             /\ (~c.hasContent /\ ~HasToolSignal(c)) =>
                  /\ out' = out
                  /\ search_performed' = search_performed
                  /\ pc' = pc /\ failed' = failed
                  /\ searchPosts' = searchPosts /\ gets' = gets
                  /\ messages' = messages /\ opens' = opens
      ]_vars

\* An empty text that came with a search_and_parse call was forwarded, and the
\* search_and_parse call of the next chunk was then honoured.
C19_Witness ==
    /\ Len(recv1) = 2
    /\ recv1[1].hasContent /\ recv1[1].content = <<>> /\ HasToolSignal(recv1[1])
    /\ IsSearchSignal(recv1[2])
    /\ out = << [kind |-> "content1", text |-> <<>>], [kind |-> "searching", query |-> "paris"] >>
    /\ searchPosts = 1

\* C15 (the claim as stated; the code breaks it): once the caller has
\* disconnected no GET is in flight, no model stream is open, the request takes
\* no further step, and the cancellation has not become a bridge fragment.
C15_CancellationReachesAllWork ==
    pc = "cancelled" =>
        /\ inflight = {}
        /\ streams = {}
        /\ ~ENABLED CancelNext
        /\ failed = None
        /\ \A i \in DOMAIN out : out[i].kind # "bridge_error"

====
